---- MODULE Spec2Model ----
(***************************************************************************)
(* Model of light_curves/code/heasarc_functions.py: the VOTable packager   *)
(* make_VOTable, the bulk cross-match retriever HEASARC_get_lightcurves    *)
(* and the per-object fallback HEASARC_get_lightcurves_forloop.            *)
(*                                                                         *)
(* Sky positions are points of a small integer grid (degrees), times are   *)
(* integers (MJD) and the placeholder flux 0.1 is kept in tenths.          *)
(***************************************************************************)
EXTENDS Integers, Sequences, FiniteSets

VARIABLES
    coords_list,       \* list of <<objectid, coord>> pairs (make_VOTable, forloop)
    labels_list,       \* list of labels (make_VOTable, forloop)
    filename,          \* sourcefilename (make_VOTable) / xml_filename (bulk)
    files,             \* the file system: path -> <<>> (absent) or <<file>>
    old_files,         \* history: the file system when the function was called
    heasarc_cat,       \* list of catalog names (bulk)
    max_error_radius,  \* list of thresholds (bulk)
    mission_list,      \* list of mission names (forloop)
    pc,                \* "call" (make_VOTable), "catalog_loop" (bulk), "coord_loop"
                       \* (forloop), then "returned" or "raised"
    m,                 \* completed iterations of the catalog loop (bulk)
    ci,                \* completed iterations of the coordinate loop (forloop)
    mcount,            \* completed iterations of the mission loop (forloop)
    df_lc,             \* the MultiIndexDFObject under construction: list of rows
    raised,            \* kind of the exception that left the function, or "none"
    ret,               \* <<>> until the function returns, then <<value>>
    queries,           \* history: every remote query issued, in order
    batches            \* history: per query answered, its catalog, the position of
                       \* the coordinate entry (forloop), df_lc before it, the
                       \* result table and the rows appended

vars == <<coords_list, labels_list, filename, files, old_files, heasarc_cat, max_error_radius,
          mission_list, pc, m, ci, mcount, df_lc, raised, ret, queries, batches>>

(***************************************************************************)
(* Bounds of the model.                                                    *)
(***************************************************************************)
MaxCoords == 2       \* longest coords_list / labels_list
MaxId == 1           \* object identifiers are 0..MaxId
MaxCats == 2         \* longest heasarc_cat / max_error_radius

(***************************************************************************)
(* Values.                                                                 *)
(***************************************************************************)
SkyCoord(ra, dec) == [ra |-> ra, dec |-> dec]

Coords == {SkyCoord(0, 1), SkyCoord(2, 0)}

ObjectIds == 0 .. MaxId

\* Where object i lies on the sky.
CoordOf(i) == IF i % 2 = 0 THEN SkyCoord(0, 1) ELSE SkyCoord(2, 0)

\* The (identifier, coordinate) pairs of the sample.
Sample == {<<i, CoordOf(i)>> : i \in ObjectIds}

Labels == <<"Yang 18", "Hon 22", "Lyu 22", "Lop 22">>

Paths == {"sources.xml", "other.xml"}

\* All sequences over S of length at most n.
SeqUpTo(S, n) == UNION {[1 .. k -> S] : k \in 0 .. n}

\* flux and err placeholder of an event row: 0.1, in tenths.
Placeholder == 1

(***************************************************************************)
(* make_VOTable                                                            *)
(***************************************************************************)

\* Table with the ra and dec comprehensions exchanged.
TableSwapped(coords, labels) ==
    [name |-> labels,
     ra   |-> [i \in 1 .. Len(coords) |-> coords[i][2].dec],
     dec  |-> [i \in 1 .. Len(coords) |-> coords[i][2].ra],
     ID   |-> [i \in 1 .. Len(coords) |-> coords[i][1]]]

\* Table({...}): the four columns, built by the three list comprehensions.
Table(coords, labels) ==
    [name |-> labels,
     ra   |-> [i \in 1 .. Len(coords) |-> coords[i][2].ra],
     dec  |-> [i \in 1 .. Len(coords) |-> coords[i][2].dec],
     ID   |-> [i \in 1 .. Len(coords) |-> coords[i][1]]]

\* Table() rejects columns of different lengths (ValueError).
ConsistentColumns(tab) ==
    /\ Len(tab.name) = Len(tab.ra)
    /\ Len(tab.ra) = Len(tab.dec)
    /\ Len(tab.dec) = Len(tab.ID)

\* tab.write(..., format='votable'): the FIELD declarations in column order and
\* one TR of four TD cells per row (the column-oriented table is transposed).
WriteVOTable(tab) ==
    [fields    |-> <<"name", "ra", "dec", "ID">>,
     tabledata |-> [i \in 1 .. Len(tab.name) |->
                        <<tab.name[i], tab.ra[i], tab.dec[i], tab.ID[i]>>]]

\* Position of FIELD f in a VOTable file.
FieldIndex(file, f) == CHOOSE k \in 1 .. Len(file.fields) : file.fields[k] = f

\* Reading a VOTable file back: the rows as records keyed by FIELD name.
ReadVOTable(file) ==
    [i \in 1 .. Len(file.tabledata) |->
        [f \in {file.fields[k] : k \in 1 .. Len(file.fields)} |->
            file.tabledata[i][FieldIndex(file, f)]]]

\* A file some earlier run left behind.
OldFile == WriteVOTable(Table(<<<<0, SkyCoord(9, 9)>>>>, <<"old">>))

\* make_VOTable, the call that writes: overwrite=True replaces whatever is there.
MakeVOTableOK ==
    /\ pc = "call"
    /\ ConsistentColumns(Table(coords_list, labels_list))
    /\ files' = [files EXCEPT ![filename] =
                    <<WriteVOTable(Table(coords_list, labels_list))>>]
    /\ ret' = <<filename>>
    /\ pc' = "returned"
    /\ UNCHANGED <<coords_list, labels_list, filename, old_files, heasarc_cat,
                   max_error_radius, mission_list, m, ci, mcount, df_lc, raised,
                   queries, batches>>

\* make_VOTable, the call in which Table() raises: nothing is written.
MakeVOTableRaise ==
    /\ pc = "call"
    /\ ~ConsistentColumns(Table(coords_list, labels_list))
    /\ raised' = "ValueError"
    /\ pc' = "raised"
    /\ UNCHANGED <<coords_list, labels_list, filename, files, old_files, heasarc_cat,
                   max_error_radius, mission_list, m, ci, mcount, df_lc, ret,
                   queries, batches>>

InitVOTable ==
    /\ coords_list \in SeqUpTo(ObjectIds \X Coords, MaxCoords)
    /\ labels_list \in {SubSeq(Labels, a, b) : a \in 1 .. 2, b \in 0 .. MaxCoords + 1}
    /\ filename \in Paths
    /\ files \in [Paths -> {<<>>, <<OldFile>>}]
    /\ old_files = files
    /\ heasarc_cat = <<>>
    /\ max_error_radius = <<>>
    /\ mission_list = <<>>
    /\ pc = "call"
    /\ m = 0
    /\ ci = 0
    /\ mcount = 0
    /\ df_lc = <<>>
    /\ raised = "none"
    /\ ret = <<>>
    /\ queries = <<>>
    /\ batches = <<>>

NextVOTable == MakeVOTableOK \/ MakeVOTableRaise

SpecVOTable == InitVOTable /\ [][NextVOTable]_vars

(***************************************************************************)
(* The shared record store (data_structures.MultiIndexDFObject).           *)
(***************************************************************************)

\* MultiIndexDFObject(): the empty store.
MultiIndexDFObject == <<>>

\* df_lc.append(df): the rows of df are concatenated after the rows held;
\* nothing is merged, replaced or dropped.
StoreAppend(store, df) == store \o df

(***************************************************************************)
(* The remote archive behind the TAP service and the cone search.          *)
(***************************************************************************)

CatRow(name, ra, dec, error_radius, time) ==
    [name |-> name, ra |-> ra, dec |-> dec, error_radius |-> error_radius,
     time |-> time]

\* The catalogs the service holds.  A name outside KnownCatalogs is an unknown
\* table, which the service answers with a fault.
KnownCatalogs == {"FERMIGTRIG", "SAXGRBMGRB"}

Archive(cat) ==
    IF cat = "FERMIGTRIG"
    THEN <<CatRow("GRB1", 0, 0, 1, 101),
           CatRow("GRB2", 2, 1, 2, 102),
           CatRow("GRB3", 1, 1, 3, 103)>>
    ELSE <<CatRow("SAX1", 0, 0, 1, 101),
           CatRow("SAX2", 2, 2, 2, 202),
           CatRow("SAX3", 5, 5, 1, 203)>>

CatalogNames == KnownCatalogs \cup {"NOSUCHCAT"}

Thresholds == {2, 3}

\* CONTAINS(POINT(ra, dec), CIRCLE(cra, cdec, r)) = 1
Contains(ra, dec, cra, cdec, r) ==
    (ra - cra) * (ra - cra) + (dec - cdec) * (dec - cdec) <= r * r

\* An ADQL comparison.
Compare(op, a, b) == IF op = "<" THEN a < b ELSE IF op = "<=" THEN a <= b ELSE a = b

(***************************************************************************)
(* HEASARC_get_lightcurves                                                 *)
(***************************************************************************)

\* FermiQuery that names the first catalog for every k.
FermiQueryFirstCatalog(k) ==
    [from   |-> heasarc_cat[1],
     op     |-> "<",
     limit  |-> max_error_radius[k],
     upload |-> "mytable"]

\* FermiQuery that compares with <= instead of <.
FermiQueryInclusive(k) ==
    [from   |-> heasarc_cat[k],
     op     |-> "<=",
     limit  |-> max_error_radius[k],
     upload |-> "mytable"]

\* The query text built for the k-th catalog (k counts from 1): its FROM table,
\* the comparison on cat.error_radius and the name of the uploaded table.
FermiQuery(k) ==
    [from   |-> heasarc_cat[k],
     op     |-> "<",
     limit  |-> max_error_radius[k],
     upload |-> "mytable"]

\* What run_sync(query, uploads={'mytable': path}) needs to answer at all.
ServiceCanAnswer(query, path) ==
    /\ query.from \in KnownCatalogs
    /\ files[path] # <<>>

\* The cross join of catalog rows and uploaded rows, as pairs.
CrossJoin(cat, mt) ==
    [k \in 1 .. Len(cat) * Len(mt) |->
        <<cat[((k - 1) \div Len(mt)) + 1], mt[((k - 1) % Len(mt)) + 1]>>]

\* The WHERE clause of the query on one pair.
Where(query, pair) ==
    /\ Compare(query.op, pair[1].error_radius, query.limit)
    /\ Contains(pair[2].ra, pair[2].dec, pair[1].ra, pair[1].dec,
                pair[1].error_radius)

\* The SELECT list: the service lower-cases mt.ID and renames the second name.
Select(pair) ==
    [name |-> pair[1].name, ra |-> pair[1].ra, dec |-> pair[1].dec,
     error_radius |-> pair[1].error_radius, time |-> pair[1].time,
     id |-> pair[2].ID, name2 |-> pair[2].name]

\* run_sync(...).to_table(): the rows the query selects.
RunSync(query, path) ==
    LET joined == CrossJoin(Archive(query.from), ReadVOTable(files[path][1]))
        kept == SelectSeq(joined, LAMBDA pair : Where(query, pair))
    IN  [k \in 1 .. Len(kept) |-> Select(kept[k])]

\* DfFermi that stores the catalog error radius as err.
DfFermiErrorRadius(fermiresulttable) ==
    [k \in 1 .. Len(fermiresulttable) |->
        [flux     |-> Placeholder,
         err      |-> fermiresulttable[k].error_radius * 10,
         time     |-> fermiresulttable[k].time,
         objectid |-> fermiresulttable[k].id,
         band     |-> "Fermi GRB",
         label    |-> fermiresulttable[k].name2]]

\* DfFermi that builds one row of scalars when the result table is empty.
DfFermiPadded(fermiresulttable) ==
    IF Len(fermiresulttable) = 0
    THEN <<[flux |-> Placeholder, err |-> Placeholder, time |-> 0, objectid |-> 0,
            band |-> "Fermi GRB", label |-> ""]>>
    ELSE [k \in 1 .. Len(fermiresulttable) |->
            [flux     |-> Placeholder,
             err      |-> Placeholder,
             time     |-> fermiresulttable[k].time,
             objectid |-> fermiresulttable[k].id,
             band     |-> "Fermi GRB",
             label    |-> fermiresulttable[k].name2]]

\* df_fermi: one event row per row of the result table.
DfFermi(fermiresulttable) ==
    [k \in 1 .. Len(fermiresulttable) |->
        [flux     |-> Placeholder,
         err      |-> Placeholder,
         time     |-> fermiresulttable[k].time,
         objectid |-> fermiresulttable[k].id,
         band     |-> "Fermi GRB",
         label    |-> fermiresulttable[k].name2]]

\* One pass of the catalog loop in which the service answers.
BulkIteration ==
    /\ pc = "catalog_loop"
    /\ m < Len(heasarc_cat)
    /\ LET fermiquery == FermiQuery(m + 1)
       IN  /\ ServiceCanAnswer(fermiquery, filename)
           /\ LET df_fermi == DfFermi(RunSync(fermiquery, filename))
              IN  /\ df_lc' = StoreAppend(df_lc, df_fermi)
                  /\ batches' = Append(batches, [catalog |-> heasarc_cat[m + 1],
                                                 entry   |-> 0,
                                                 before  |-> df_lc,
                                                 table   |-> RunSync(fermiquery, filename),
                                                 df      |-> df_fermi])
           /\ queries' = Append(queries, fermiquery)
    /\ m' = m + 1
    /\ UNCHANGED <<coords_list, labels_list, filename, files, old_files, heasarc_cat,
                   max_error_radius, mission_list, pc, ci, mcount, raised, ret>>

\* BulkFault with the fault swallowed: the loop goes on to the next catalog.
BulkFaultCaught ==
    /\ pc = "catalog_loop"
    /\ m < Len(heasarc_cat)
    /\ queries' = Append(queries, FermiQuery(m + 1))
    /\ m' = m + 1
    /\ UNCHANGED <<coords_list, labels_list, filename, files, old_files, heasarc_cat,
                   max_error_radius, mission_list, pc, ci, mcount, df_lc, raised, ret,
                   batches>>

\* One pass of the catalog loop in which run_sync raises (the service is down,
\* the table is unknown, the upload cannot be read): nothing catches it.
BulkFault ==
    /\ pc = "catalog_loop"
    /\ m < Len(heasarc_cat)
    /\ queries' = Append(queries, FermiQuery(m + 1))
    /\ raised' = "ServiceFault"
    /\ pc' = "raised"
    /\ UNCHANGED <<coords_list, labels_list, filename, files, old_files, heasarc_cat,
                   max_error_radius, mission_list, m, ci, mcount, df_lc, ret, batches>>

\* The loop is exhausted: return df_lc.
BulkReturn ==
    /\ pc = "catalog_loop"
    /\ m = Len(heasarc_cat)
    /\ ret' = <<df_lc>>
    /\ pc' = "returned"
    /\ UNCHANGED <<coords_list, labels_list, filename, files, old_files, heasarc_cat,
                   max_error_radius, mission_list, m, ci, mcount, df_lc, raised,
                   queries, batches>>

\* The (coords_list, labels_list) pairs the upload artifact was made from.
UploadInputs ==
    {<<c, SubSeq(Labels, 1, Len(c))>> : c \in SeqUpTo(Sample, MaxCoords)}

InitBulk ==
    /\ \E n \in 0 .. MaxCats :
          /\ heasarc_cat \in [1 .. n -> CatalogNames]
          /\ max_error_radius \in [1 .. n -> Thresholds]
    /\ filename = "sources.xml"
    /\ \E u \in UploadInputs :
          files \in {[p \in Paths |-> <<>>],
                     [p \in Paths |-> IF p = filename
                                      THEN <<WriteVOTable(Table(u[1], u[2]))>>
                                      ELSE <<>>]}
    /\ old_files = files
    /\ coords_list = <<>>
    /\ labels_list = <<>>
    /\ mission_list = <<>>
    /\ pc = "catalog_loop"
    /\ m = 0
    /\ ci = 0
    /\ mcount = 0
    /\ df_lc = MultiIndexDFObject
    /\ raised = "none"
    /\ ret = <<>>
    /\ queries = <<>>
    /\ batches = <<>>

NextBulk == BulkIteration \/ BulkFault \/ BulkReturn

SpecBulk == InitBulk /\ [][NextBulk]_vars

(***************************************************************************)
(* HEASARC_get_lightcurves_forloop                                         *)
(***************************************************************************)

\* The mission lists the function is called with.
MissionLists ==
    {<<>>, <<"FERMIGTRIG">>, <<"SAXGRBMGRB">>,
     <<"FERMIGTRIG", "SAXGRBMGRB">>, <<"SAXGRBMGRB", "FERMIGTRIG">>,
     <<"fermigtrig", "FERMIGTRIG">>}

ResultRow(trigger_time, time) == [TRIGGER_TIME |-> trigger_time, TIME |-> time]

\* The tables Heasarc.query_region can return: no row, one row, two rows.
ResultTables ==
    {<<>>,
     <<ResultRow(10, 20)>>,
     <<ResultRow(11, 21), ResultRow(12, 22)>>}

\* TimeColumn that reads the generic column for every mission.
TimeColumnGeneric(mission) == "TIME"

\* The column the trigger time is read from.
TimeColumn(mission) == IF mission = "FERMIGTRIG" THEN "TRIGGER_TIME" ELSE "TIME"

\* results[column][0].astype(float)
TimeMjd(results, mission) == results[1][TimeColumn(mission)]

\* lab = labels_list[objectid] (Python counts from 0)
Lab(objectid) == labels_list[objectid + 1]

\* Whether the body of the try block runs through on these results: [0] needs a
\* first row and labels_list[objectid] an element at that index (else IndexError).
BodyRuns(results, objectid) ==
    /\ Len(results) > 0
    /\ objectid + 1 \in 1 .. Len(labels_list)

\* dfsingle: the one event row of a (coordinate, mission) pair.
DfSingle(time_mjd, objectid, mission, lab) ==
    <<[flux     |-> Placeholder,
       err      |-> Placeholder,
       time     |-> time_mjd,
       objectid |-> objectid,
       band     |-> mission,
       label    |-> lab]>>

\* The cone search issued for the pair the loops stand at.
RegionQuery ==
    [coord   |-> coords_list[ci + 1][2],
     mission |-> mission_list[mcount + 1],
     entry   |-> ci + 1]

\* A pair is pending: the coordinate loop and the mission loop both have one.
PairPending ==
    /\ pc = "coord_loop"
    /\ ci < Len(coords_list)
    /\ mcount < Len(mission_list)

\* Advancing the two loops past the current pair.
NextPair ==
    /\ ci' = IF mcount + 1 = Len(mission_list) THEN ci + 1 ELSE ci
    /\ mcount' = IF mcount + 1 = Len(mission_list) THEN 0 ELSE mcount + 1

\* A pair whose query returns results and whose row is appended.
ForloopAppend ==
    /\ PairPending
    /\ \E results \in ResultTables :
          LET objectid == coords_list[ci + 1][1]
              mission == mission_list[mcount + 1]
          IN  /\ BodyRuns(results, objectid)
              /\ LET dfsingle == DfSingle(TimeMjd(results, mission), objectid,
                                          mission, Lab(objectid))
                 IN  /\ df_lc' = StoreAppend(df_lc, dfsingle)
                     /\ batches' = Append(batches, [catalog |-> mission,
                                                    entry   |-> ci + 1,
                                                    before  |-> df_lc,
                                                    table   |-> results,
                                                    df      |-> dfsingle])
    /\ queries' = Append(queries, RegionQuery)
    /\ NextPair
    /\ UNCHANGED <<coords_list, labels_list, filename, files, old_files, heasarc_cat,
                   max_error_radius, mission_list, pc, m, raised, ret>>

\* ForloopNoResult without the except clause: AttributeError leaves the function.
ForloopNoResultRaised ==
    /\ pc = "coord_loop"
    /\ ci < Len(coords_list)
    /\ mcount < Len(mission_list)
    /\ queries' = Append(queries, [coord   |-> coords_list[ci + 1][2],
                                   mission |-> mission_list[mcount + 1],
                                   entry   |-> ci + 1])
    /\ raised' = "AttributeError"
    /\ pc' = "raised"
    /\ UNCHANGED <<coords_list, labels_list, filename, files, old_files, heasarc_cat,
                   max_error_radius, mission_list, m, ci, mcount, df_lc, ret, batches>>

\* A pair whose query raises AttributeError (no results at that location): the
\* except clause passes and the loop goes on.
ForloopNoResult ==
    /\ PairPending
    /\ queries' = Append(queries, RegionQuery)
    /\ batches' = Append(batches, [catalog |-> mission_list[mcount + 1],
                                   entry   |-> ci + 1,
                                   before  |-> df_lc,
                                   table   |-> <<>>,
                                   df      |-> <<>>])
    /\ NextPair
    /\ UNCHANGED <<coords_list, labels_list, filename, files, old_files, heasarc_cat,
                   max_error_radius, mission_list, pc, m, df_lc, raised, ret>>

\* A pair whose query raises anything else: the exception leaves the function.
ForloopFault ==
    /\ PairPending
    /\ queries' = Append(queries, RegionQuery)
    /\ raised' = "ServiceFault"
    /\ pc' = "raised"
    /\ UNCHANGED <<coords_list, labels_list, filename, files, old_files, heasarc_cat,
                   max_error_radius, mission_list, m, ci, mcount, df_lc, ret, batches>>

\* A pair whose query returns results on which the body raises IndexError (an
\* empty table, or no label at index objectid): it is not caught either.
ForloopIndexError ==
    /\ PairPending
    /\ \E results \in ResultTables : ~BodyRuns(results, coords_list[ci + 1][1])
    /\ queries' = Append(queries, RegionQuery)
    /\ raised' = "IndexError"
    /\ pc' = "raised"
    /\ UNCHANGED <<coords_list, labels_list, filename, files, old_files, heasarc_cat,
                   max_error_radius, mission_list, m, ci, mcount, df_lc, ret, batches>>

\* A coordinate for which the mission loop has nothing to do.
ForloopNoMission ==
    /\ pc = "coord_loop"
    /\ ci < Len(coords_list)
    /\ Len(mission_list) = 0
    /\ ci' = ci + 1
    /\ UNCHANGED <<coords_list, labels_list, filename, files, old_files, heasarc_cat,
                   max_error_radius, mission_list, pc, m, mcount, df_lc, raised, ret,
                   queries, batches>>

\* The coordinate loop is exhausted: return df_lc.
ForloopReturn ==
    /\ pc = "coord_loop"
    /\ ci = Len(coords_list)
    /\ ret' = <<df_lc>>
    /\ pc' = "returned"
    /\ UNCHANGED <<coords_list, labels_list, filename, files, old_files, heasarc_cat,
                   max_error_radius, mission_list, m, ci, mcount, df_lc, raised,
                   queries, batches>>

InitForloop ==
    /\ \E n \in 0 .. MaxCoords :
          /\ coords_list \in [1 .. n -> Sample]
          /\ labels_list = SubSeq(Labels, 1, n)
    /\ mission_list \in MissionLists
    /\ filename = "sources.xml"
    /\ files = [p \in Paths |-> <<>>]
    /\ old_files = files
    /\ heasarc_cat = <<>>
    /\ max_error_radius = <<>>
    /\ pc = "coord_loop"
    /\ m = 0
    /\ ci = 0
    /\ mcount = 0
    /\ df_lc = MultiIndexDFObject
    /\ raised = "none"
    /\ ret = <<>>
    /\ queries = <<>>
    /\ batches = <<>>

NextForloop ==
    \/ ForloopAppend
    \/ ForloopNoResult
    \/ ForloopFault
    \/ ForloopIndexError
    \/ ForloopNoMission
    \/ ForloopReturn

SpecForloop == InitForloop /\ [][NextForloop]_vars

(***************************************************************************)
(* Either retriever.                                                       *)
(***************************************************************************)
InitRetrievers == InitBulk \/ InitForloop

NextRetrievers == NextBulk \/ NextForloop

SpecRetrievers == InitRetrievers /\ [][NextRetrievers]_vars

(***************************************************************************)
(* Properties.                                                             *)
(***************************************************************************)

\* df_lc as the k-th answered query left it.
After(k) == IF k < Len(batches) THEN batches[k + 1].before ELSE df_lc

\* C1: the bulk retriever issues its queries in input order, the k-th query for
\* the k-th catalog, none skipped or repeated, and a call that returns has
\* issued exactly one query per catalog.
InvC1 ==
    /\ Len(queries) <= Len(heasarc_cat)
    /\ \A k \in 1 .. Len(queries) : queries[k].from = heasarc_cat[k]
    /\ pc = "returned" => Len(queries) = Len(heasarc_cat)

WitC1 ==
    /\ pc = "returned"
    /\ Len(queries) = 2
    /\ queries[1].from # queries[2].from

\* C2: in the fallback retriever a "no result" fault (AttributeError) appends
\* nothing for its pair and the loops go on to the later pairs, so a call that
\* returns has queried every pair; any other fault leaves the function at once:
\* the faulted query is the last one issued and no store is returned.
InvC2 ==
    /\ \A k \in 1 .. Len(batches) :
          batches[k].table = <<>> => After(k) = batches[k].before
    /\ pc = "raised" =>
          /\ raised # "AttributeError"
          /\ raised # "none"
          /\ ret = <<>>
          /\ Len(queries) = Len(batches) + 1
          /\ ~ENABLED NextForloop
    /\ pc # "raised" =>
          /\ raised = "none"
          /\ Len(queries) = Len(batches)
    /\ pc = "returned" => Len(queries) = Len(coords_list) * Len(mission_list)

WitC2 ==
    /\ pc = "returned"
    /\ \E k \in 1 .. Len(batches) - 1 :
          /\ batches[k].table = <<>>
          /\ batches[k].before # <<>>
          /\ batches[k + 1].df # <<>>

\* C3: rows are not deduplicated, and two rows that two different catalogs
\* report for the same coordinate (same objectid and label) differ in band.
InvC3 ==
    /\ \A k \in 1 .. Len(batches) : After(k) = batches[k].before \o batches[k].df
    /\ \A k1, k2 \in 1 .. Len(batches) :
          (k1 < k2 /\ batches[k1].catalog # batches[k2].catalog) =>
             \A r1 \in 1 .. Len(batches[k1].df), r2 \in 1 .. Len(batches[k2].df) :
                (/\ batches[k1].df[r1].objectid = batches[k2].df[r2].objectid
                 /\ batches[k1].df[r1].label = batches[k2].df[r2].label)
                => batches[k1].df[r1].band # batches[k2].df[r2].band

\* C4: in the bulk retriever a fault of the query for catalog k is not caught:
\* it is the last query issued, the function ends with the fault and returns no
\* store; every query of a call still running or returned was answered.
InvC4 ==
    /\ pc = "raised" =>
          /\ raised = "ServiceFault"
          /\ ret = <<>>
          /\ Len(queries) = m + 1
          /\ Len(batches) = m
          /\ ~ENABLED NextBulk
    /\ pc # "raised" =>
          /\ raised = "none"
          /\ Len(queries) = Len(batches)
    /\ ret # <<>> => Len(batches) = Len(heasarc_cat)

WitC4 ==
    /\ pc = "raised"
    /\ Len(heasarc_cat) = 2
    /\ Len(queries) = 1
    /\ heasarc_cat[1] \in KnownCatalogs
    /\ files[filename] # <<>>

\* C5: every row of the store, while either retriever runs and in what it
\* returns, has flux 0.1 and err 0.1 (1 in tenths).
InvC5 ==
    /\ \A r \in 1 .. Len(df_lc) : df_lc[r].flux = 1 /\ df_lc[r].err = 1
    /\ ret # <<>> => \A r \in 1 .. Len(ret[1]) : ret[1][r].flux = 1 /\ ret[1][r].err = 1

WitC5 ==
    /\ pc = "returned"
    /\ \E k \in 1 .. Len(batches) : Len(batches[k].df) >= 2
    /\ \E r1, r2 \in 1 .. Len(ret[1]) : ret[1][r1].time # ret[1][r2].time

\* C6: in the fallback retriever the time of a row is the first result row's
\* TRIGGER_TIME when the mission is exactly 'FERMIGTRIG' and its TIME for any
\* other mission string.
InvC6 ==
    \A k \in 1 .. Len(batches) :
       batches[k].df # <<>> =>
          batches[k].df[1].time =
             IF batches[k].catalog = "FERMIGTRIG"
             THEN batches[k].table[1].TRIGGER_TIME
             ELSE batches[k].table[1].TIME

WitC6 ==
    \E k1, k2 \in 1 .. Len(batches) :
       /\ batches[k1].catalog = "FERMIGTRIG"
       /\ batches[k2].catalog = "fermigtrig"
       /\ batches[k1].df # <<>>
       /\ batches[k2].df # <<>>
       /\ batches[k1].table = batches[k2].table
       /\ batches[k1].df[1].time # batches[k2].df[1].time

\* C7: in the bulk retriever a query that returns zero rows leaves the store as
\* it was, raises nothing and the loop goes on to the next catalog.
InvC7 ==
    /\ m = Len(batches)
    /\ \A k \in 1 .. Len(batches) :
          Len(batches[k].table) = 0 =>
             /\ After(k) = batches[k].before
             /\ Len(queries) = k => pc \in {"catalog_loop", "returned"}
             /\ (Len(queries) = k /\ pc = "catalog_loop") => ENABLED NextBulk

WitC7 ==
    /\ pc = "returned"
    /\ \E k \in 1 .. Len(batches) :
          /\ Len(batches[k].table) = 0
          /\ batches[k].before # <<>>
          /\ ret = <<batches[k].before>>

\* C8: after make_VOTable has returned, reading the file at the path gives one
\* row per (identifier, coordinate) pair, in input order, row i holding the
\* i-th label, the i-th coordinate's ra and dec and the i-th identifier; what
\* the path held before is gone and the path is what the function returns.
InvC8 ==
    pc = "returned" =>
       /\ ret = <<filename>>
       /\ files[filename] # <<>>
       /\ old_files[filename] # <<>> => files[filename] # old_files[filename]
       /\ LET rows == ReadVOTable(files[filename][1])
          IN  /\ Len(rows) = Len(coords_list)
              /\ Len(rows) = Len(labels_list)
              /\ \A i \in 1 .. Len(rows) :
                    /\ rows[i].name = labels_list[i]
                    /\ rows[i].ra = coords_list[i][2].ra
                    /\ rows[i].dec = coords_list[i][2].dec
                    /\ rows[i].ID = coords_list[i][1]

WitC8 ==
    /\ pc = "returned"
    /\ ret = <<filename>>
    /\ old_files[filename] = <<OldFile>>
    /\ Len(coords_list) = 2
    /\ coords_list[1][1] = 1
    /\ coords_list[1][2] # coords_list[2][2]
    /\ labels_list[1] = Labels[2]

\* C9: in the fallback retriever every answered query appends exactly one row,
\* whose objectid is the entry's identifier and whose label is the label at
\* the entry's position in labels_list.
InvC9 ==
    \A k \in 1 .. Len(batches) :
       batches[k].table # <<>> =>
          /\ Len(batches[k].df) = 1
          /\ After(k) = batches[k].before \o batches[k].df
          /\ batches[k].df[1].objectid = coords_list[batches[k].entry][1]
          /\ batches[k].df[1].label = labels_list[batches[k].entry]

\* The (catalog row, uploaded row) pairs that match for the k-th catalog:
\* error_radius strictly below the k-th threshold and the uploaded point
\* inside the catalog row's error circle.
Matches(k) ==
    LET cat == Archive(heasarc_cat[k])
        mt == ReadVOTable(files[filename][1])
    IN  {p \in (1 .. Len(cat)) \X (1 .. Len(mt)) :
            /\ cat[p[1]].error_radius < max_error_radius[k]
            /\ Contains(mt[p[2]].ra, mt[p[2]].dec, cat[p[1]].ra, cat[p[1]].dec,
                        cat[p[1]].error_radius)}

\* The key a matching pair is expected to be stored under.
Expected(k, p) ==
    LET cat == Archive(heasarc_cat[k])
        mt == ReadVOTable(files[filename][1])
    IN  <<mt[p[2]].ID, mt[p[2]].name, cat[p[1]].time>>

RowKey(row) == <<row.objectid, row.label, row.time>>

====
